---- MODULE Spec2Model ----
(***************************************************************************)
(* Monte Carlo Tree Search planner of RobotArena                           *)
(* (src/bettergym/agents/planner_mcts.py): the node table, UCB1 selection, *)
(* the recursive simulate procedure, the rollout loop and plan().          *)
(*                                                                         *)
(* The recursion of simulate is kept as an explicit stack of frames, the   *)
(* rollout loop advances one environment step per action, and an exception *)
(* raised by the code stops the planner in pc = "error".  Of the            *)
(* diagnostics in self.info, the trajectory of the current traversal is    *)
(* kept as history, and the exception the update of line 142 can raise.    *)
(*                                                                         *)
(* Numbers.  Returns are floats in the code.  Here a return is an integer  *)
(* count of 1/Unit, where Unit is a power of two large enough that every   *)
(* product with the discount (0, 1/2 or 1) taken within one traversal is   *)
(* exact.  UCB scores are compared to five decimals.                       *)
(***************************************************************************)
EXTENDS Integers, Sequences, FiniteSets, TLC

\* ------------------------------------------------------------------ bounds
MaxNumSim == 3
MaxBudget == 3
MaxRollout == 2

\* The simulation count of the example driver, run on the "bandit" environment.
ConvergenceSims == 1000

VARIABLES
    num_sim, c, computational_budget, discount, environment,
    id_to_state_node, last_id,
    pc, raised, plans, root_id, sn, result,
    stack, state_id, depth, ret,
    current_state, terminal, total_reward, starting_depth, curr_depth,
    backed, path, snap, rolled, first_id

config == <<num_sim, c, computational_budget, discount, environment>>
tree == <<id_to_state_node, last_id>>
driver == <<plans, root_id, sn, result>>
call == <<stack, state_id, depth, ret>>
loop == <<current_state, terminal, total_reward, starting_depth, curr_depth>>
history == <<backed, path, snap, rolled, first_id>>
vars == <<config, tree, pc, raised, driver, call, loop, history>>

\* ------------------------------------------------------------- arithmetic
RECURSIVE Pow2(_)
Pow2(k) == IF k = 0 THEN 1 ELSE 2 * Pow2(k - 1)

\* One unit of return (the float 1.0).
Unit == Pow2(MaxNumSim + MaxRollout)

\* The discount factors tried: 0, 1/2 and 1.
Discounts == {0, Unit \div 2, Unit}

\* x * y for a return x and a factor y, both counted in 1/Unit.
Mul(x, y) == (x * y) \div Unit

\* Mutant: the k-th reward of a rollout is weighted by discount^(k+1).
RECURSIVE PowShifted(_, _)
PowShifted(d, k) == IF k = 0 THEN d ELSE Mul(PowShifted(d, k - 1), d)

\* pow(discount, k)
RECURSIVE Pow(_, _)
Pow(d, k) == IF k = 0 THEN Unit ELSE Mul(Pow(d, k - 1), d)

RECURSIVE SumSeq(_)
SumSeq(s) == IF s = <<>> THEN 0 ELSE Head(s) + SumSeq(Tail(s))

None == -1

\* -------------------------------------------------------------- environment
\* Four environments the planner is run on.  A step returns one of a set of
\* outcomes [s, r, t]: next state, reward, terminal flag.
\*   "robot": the recycling robot (HIGH = 0, LOW = 1); stochastic, never terminal.
\*   "chain": reward 0 on every transition except the terminal one 1 -> 2.
\*   "arms" : three root actions ending the episode; actions 0 and 2 reach the
\*            same state 1, where a further step still pays 1; state 2 has no
\*            legal action.
\*   "bandit": two root actions ending the episode, with reward 10 (state 1)
\*            and reward 1 (state 2); a further step from state 1 pays
\*            nothing, one from state 2 pays 20.
Environments == {"robot", "chain", "arms", "bandit"}

States(e) ==
    CASE e = "robot" -> {0, 1}
      [] e = "chain" -> {0, 1, 2}
      [] e = "arms"  -> {0, 1, 2}
      [] e = "bandit" -> {0, 1, 2}

get_actions(e, s) ==
    CASE e = "robot" -> IF s = 0 THEN <<0, 1>> ELSE <<0, 1, 2>>
      [] e = "chain" -> IF s = 0 THEN <<0, 1>> ELSE <<0>>
      [] e = "arms"  -> IF s = 0 THEN <<0, 1, 2>> ELSE IF s = 1 THEN <<0>> ELSE <<>>
      [] e = "bandit" -> IF s = 0 THEN <<0, 1>> ELSE <<0>>

Out(s, r, t) == [s |-> s, r |-> r, t |-> t]

step(e, s, a) ==
    CASE e = "robot" ->
           (CASE s = 0 /\ a = 0 -> {Out(0, 2, FALSE), Out(1, 2, FALSE)}
              [] s = 0 /\ a = 1 -> {Out(0, 1, FALSE)}
              [] s = 1 /\ a = 0 -> {Out(1, 2, FALSE), Out(0, 0, FALSE)}
              [] s = 1 /\ a = 1 -> {Out(1, 1, FALSE)}
              [] OTHER          -> {Out(0, 0, FALSE)})
      [] e = "chain" ->
           (CASE s = 0 /\ a = 0 -> {Out(1, 0, FALSE)}
              [] s = 0 /\ a = 1 -> {Out(0, 0, FALSE)}
              [] s = 1          -> {Out(2, 2, TRUE)}
              [] OTHER          -> {Out(2, 0, TRUE)})
      [] e = "arms" ->
           (CASE s = 0 /\ a = 0 -> {Out(1, 3, TRUE)}
              [] s = 0 /\ a = 1 -> {Out(2, 1, TRUE)}
              [] s = 0 /\ a = 2 -> {Out(1, 1, TRUE)}
              [] OTHER          -> {Out(1, 1, TRUE)})
      [] e = "bandit" ->
           (CASE s = 0 /\ a = 0 -> {Out(1, 10, TRUE)}
              [] s = 0 /\ a = 1 -> {Out(2, 1, TRUE)}
              [] s = 1          -> {Out(1, 0, TRUE)}
              [] OTHER          -> {Out(2, 20, TRUE)})

\* -------------------------------------------------------------- tree nodes
ActionNode(a) == [action |-> a, state_to_id |-> <<>>]

\* Mutant: a StateNode counts its own creation as a visit.
StateNodeCounted(e, s, node_id) ==
    LET acts == get_actions(e, s) IN
    [ id                 |-> node_id,
      state              |-> s,
      actions            |-> [i \in 1..Len(acts) |-> ActionNode(acts[i])],
      num_visits_actions |-> [i \in 1..Len(acts) |-> 0],
      a_values           |-> [i \in 1..Len(acts) |-> 0],
      num_visits         |-> 1 ]

StateNode(e, s, node_id) ==
    LET acts == get_actions(e, s) IN
    [ id                 |-> node_id,
      state              |-> s,
      actions            |-> [i \in 1..Len(acts) |-> ActionNode(acts[i])],
      num_visits_actions |-> [i \in 1..Len(acts) |-> 0],
      a_values           |-> [i \in 1..Len(acts) |-> 0],
      num_visits         |-> 0 ]

\* Mutant: the counter is incremented on the first call only.
get_id_stale == IF last_id < 0 THEN 0 ELSE last_id

get_id == last_id + 1

\* Mutant: the visit of the state node is not counted.
VisitNodeSkipped(node) == node

\* num_visits += 1 on entering simulate.
VisitNode(node) == [node EXCEPT !.num_visits = @ + 1]

\* Mutant: the successor is looked up among all the nodes of the table.
LookupGlobal(action_node, s) ==
    IF \E id \in DOMAIN id_to_state_node : id_to_state_node[id].state = s
    THEN CHOOSE id \in DOMAIN id_to_state_node : id_to_state_node[id].state = s
    ELSE None

\* Mutant: the successor map is never consulted.
LookupMiss(action_node, s) == None

\* action_node.state_to_id.get(current_state, None)
Lookup(action_node, s) ==
    IF s \in DOMAIN action_node.state_to_id THEN action_node.state_to_id[s] ELSE None

\* Mutant: registering a successor replaces the map of the action.
RegisterOnly(node, i, s, new_id) ==
    [node EXCEPT !.actions[i].state_to_id = (s :> new_id)]

\* action_node.state_to_id[current_state] = state_id
Register(node, i, s, new_id) ==
    [node EXCEPT !.actions[i].state_to_id = (s :> new_id) @@ @]

\* num_visits_actions[action_idx] += 1
VisitAction(node, i) == [node EXCEPT !.num_visits_actions[i] = @ + 1]

\* a_values[action_idx] += total_rwrd
AddValue(node, i, v) == [node EXCEPT !.a_values[i] = @ + v]

\* ------------------------------------------------------------------- UCB1
\* A float64 score: not-a-number, +infinity, or a finite value v counted in
\* 1/100000.
NaN == [k |-> "nan", v |-> 0]
Inf == [k |-> "inf", v |-> 0]
Fin(x) == [k |-> "fin", v |-> x]

\* round(10^8 * ln(N)) for N in 1..1000: entry N.
LnTable ==
    <<
       0, 69314718, 109861229, 138629436, 160943791, 179175947, 194591015, 207944154,
       219722458, 230258509, 239789527, 248490665, 256494936, 263905733, 270805020, 277258872,
       283321334, 289037176, 294443898, 299573227, 304452244, 309104245, 313549422, 317805383,
       321887582, 325809654, 329583687, 333220451, 336729583, 340119738, 343398720, 346573590,
       349650756, 352636052, 355534806, 358351894, 361091791, 363758616, 366356165, 368887945,
       371357207, 373766962, 376120012, 378418963, 380666249, 382864140, 385014760, 387120101,
       389182030, 391202301, 393182563, 395124372, 397029191, 398898405, 400733319, 402535169,
       404305127, 406044301, 407753744, 409434456, 411087386, 412713439, 414313473, 415888308,
       417438727, 418965474, 420469262, 421950771, 423410650, 424849524, 426267988, 427666612,
       429045944, 430406509, 431748811, 433073334, 434380542, 435670883, 436944785, 438202663,
       439444915, 440671925, 441884061, 443081680, 444265126, 445434730, 446590812, 447733681,
       448863637, 449980967, 451085951, 452178858, 453259949, 454329478, 455387689, 456434819,
       457471098, 458496748, 459511985, 460517019, 461512052, 462497281, 463472899, 464439090,
       465396035, 466343909, 467282883, 468213123, 469134788, 470048037, 470953020, 471849887,
       472738782, 473619845, 474493213, 475359019, 476217393, 477068462, 477912349, 478749174,
       479579055, 480402104, 481218436, 482028157, 482831374, 483628191, 484418709, 485203026,
       485981240, 486753445, 487519732, 488280192, 489034913, 489783980, 490527478, 491265489,
       491998093, 492725369, 493447393, 494164242, 494875989, 495582706, 496284463, 496981330,
       497673374, 498360662, 499043259, 499721227, 500394631, 501063529, 501727984, 502388052,
       503043792, 503695260, 504342512, 504985601, 505624581, 506259503, 506890420, 507517382,
       508140436, 508759634, 509375020, 509986643, 510594547, 511198779, 511799381, 512396398,
       512989871, 513579844, 514166356, 514749448, 515329159, 515905530, 516478597, 517048400,
       517614973, 518178355, 518738581, 519295685, 519849703, 520400669, 520948615, 521493576,
       522035583, 522574667, 523110862, 523644196, 524174702, 524702407, 525227343, 525749537,
       526269019, 526785816, 527299956, 527811466, 528320373, 528826703, 529330482, 529831737,
       530330491, 530826770, 531320598, 531811999, 532300998, 532787617, 533271879, 533753808,
       534233425, 534710753, 535185813, 535658627, 536129217, 536597602, 537063803, 537527841,
       537989735, 538449506, 538907173, 539362755, 539816270, 540267738, 540717177, 541164605,
       541610040, 542053500, 542495002, 542934563, 543372200, 543807931, 544241771, 544673737,
       545103845, 545532112, 545958551, 546383181, 546806014, 547227067, 547646355, 548063892,
       548479693, 548893773, 549306144, 549716823, 550125821, 550533154, 550938834, 551342875,
       551745290, 552146092, 552545294, 552942909, 553338949, 553733427, 554126355, 554517744,
       554907608, 555295958, 555682806, 556068163, 556452041, 556834450, 557215403, 557594910,
       557972983, 558349631, 558724866, 559098698, 559471138, 559842196, 560211882, 560580207,
       560947180, 561312811, 561677110, 562040087, 562401751, 562762111, 563121178, 563478960,
       563835467, 564190707, 564544690, 564897424, 565248918, 565599181, 565948222, 566296048,
       566642669, 566988092, 567332327, 567675380, 568017261, 568357977, 568697536, 569035945,
       569373214, 569709349, 570044357, 570378247, 570711026, 571042702, 571373281, 571702770,
       572031178, 572358510, 572684775, 573009978, 573334128, 573657230, 573979291, 574300319,
       574620319, 574939299, 575257264, 575574221, 575890177, 576205138, 576519110, 576832100,
       577144112, 577455155, 577765232, 578074352, 578382518, 578689738, 578996017, 579301361,
       579605775, 579909265, 580211838, 580513497, 580814249, 581114099, 581413053, 581711116,
       582008293, 582304590, 582600011, 582894562, 583188248, 583481074, 583773045, 584064166,
       584354442, 584643878, 584932478, 585220248, 585507192, 585793315, 586078622, 586363118,
       586646806, 586929691, 587211779, 587493073, 587773578, 588053299, 588332239, 588610403,
       588887796, 589164421, 589440283, 589715387, 589989735, 590263333, 590536185, 590808294,
       591079664, 591350301, 591620206, 591889385, 592157842, 592425580, 592692603, 592958914,
       593224519, 593489420, 593753621, 594017125, 594279938, 594542061, 594803499, 595064255,
       595324333, 595583737, 595842469, 596100534, 596357934, 596614674, 596870756, 597126184,
       597380961, 597635091, 597888576, 598141421, 598393628, 598645201, 598896142, 599146455,
       599396143, 599645209, 599893656, 600141488, 600388707, 600635316, 600881319, 601126717,
       601371516, 601615716, 601859321, 602102335, 602344759, 602586597, 602827852, 603068526,
       603308622, 603548143, 603787092, 604025471, 604263283, 604500531, 604737218, 604973346,
       605208917, 605443935, 605678401, 605912320, 606145692, 606378521, 606610809, 606842559,
       607073773, 607304453, 607534603, 607764224, 607993320, 608221891, 608449941, 608677473,
       608904488, 609130988, 609356977, 609582456, 609807428, 610031895, 610255859, 610479323,
       610702289, 610924758, 611146734, 611368218, 611589213, 611809720, 612029742, 612249281,
       612468339, 612686918, 612905021, 613122649, 613339804, 613556489, 613772705, 613988455,
       614203741, 614418563, 614632926, 614846830, 615060277, 615273269, 615485809, 615697899,
       615909539, 616120732, 616331480, 616541785, 616751649, 616961073, 617170060, 617378610,
       617586727, 617794411, 618001665, 618208491, 618414889, 618620862, 618826412, 619031541,
       619236249, 619440539, 619644413, 619847872, 620050917, 620253552, 620455776, 620657593,
       620859003, 621060008, 621260610, 621460810, 621660610, 621860012, 622059017, 622257627,
       622455843, 622653667, 622851100, 623048145, 623244802, 623441073, 623636959, 623832463,
       624027585, 624222327, 624416690, 624610677, 624804287, 624997524, 625190388, 625382881,
       625575004, 625766759, 625958146, 626149168, 626339826, 626530121, 626720055, 626909628,
       627098843, 627287701, 627476202, 627664349, 627852142, 628039584, 628226675, 628413416,
       628599809, 628785856, 628971557, 629156914, 629341928, 629526600, 629710932, 629894925,
       630078579, 630261898, 630444880, 630627529, 630809844, 630991828, 631173481, 631354805,
       631535800, 631716469, 631896811, 632076829, 632256524, 632435896, 632614947, 632793678,
       632972091, 633150185, 633327963, 633505425, 633682573, 633859408, 634035930, 634212142,
       634388043, 634563636, 634738921, 634913899, 635088572, 635262940, 635437004, 635610766,
       635784227, 635957387, 636130248, 636302810, 636475076, 636647045, 636818719, 636990098,
       637161185, 637331979, 637502482, 637672695, 637842618, 638012254, 638181602, 638350663,
       638519440, 638687932, 638856141, 639024067, 639191711, 639359075, 639526160, 639692966,
       639859493, 640025745, 640191720, 640357420, 640522846, 640687999, 640852879, 641017488,
       641181827, 641345896, 641509696, 641673228, 641836494, 641999493, 642162227, 642324696,
       642486902, 642648846, 642810527, 642971948, 643133108, 643294009, 643454652, 643615037,
       643775165, 643935037, 644094654, 644254017, 644413126, 644571982, 644730586, 644888939,
       645047042, 645204895, 645362500, 645519856, 645676966, 645833828, 645990445, 646146818,
       646302946, 646458830, 646614472, 646769873, 646925032, 647079950, 647234629, 647389070,
       647543272, 647697236, 647850964, 648004456, 648157713, 648310735, 648463524, 648616079,
       648768402, 648920493, 649072353, 649223984, 649375384, 649526556, 649677499, 649828215,
       649978704, 650128967, 650279005, 650428817, 650578406, 650727771, 650876914, 651025834,
       651174533, 651323011, 651471269, 651619308, 651767127, 651914729, 652062113, 652209280,
       652356231, 652502966, 652649486, 652795792, 652941884, 653087763, 653233429, 653378884,
       653524127, 653669160, 653813982, 653958596, 654103000, 654247196, 654391185, 654534966,
       654678541, 654821910, 654965074, 655108034, 655250789, 655393340, 655535689, 655677836,
       655819780, 655961524, 656103067, 656244409, 656385553, 656526497, 656667243, 656807791,
       656948142, 657088296, 657228254, 657368017, 657507584, 657646957, 657786136, 657925121,
       658063914, 658202514, 658340922, 658479139, 658617165, 658755001, 658892648, 659030105,
       659167373, 659304453, 659441346, 659578051, 659714570, 659850903, 659987050, 660123012,
       660258789, 660394382, 660529792, 660665019, 660800063, 660934924, 661069604, 661204103,
       661338422, 661472560, 661606519, 661740298, 661873898, 662007321, 662140565, 662273632,
       662406523, 662539237, 662671775, 662804138, 662936325, 663068339, 663200178, 663331843,
       663463336, 663594656, 663725803, 663856779, 663987583, 664118217, 664248680, 664378973,
       664509097, 664639051, 664768837, 664898455, 665027905, 665157187, 665286303, 665415252,
       665544035, 665672652, 665801105, 665929392, 666057515, 666185474, 666313270, 666440902,
       666568372, 666695679, 666822825, 666949809, 667076632, 667203295, 667329797, 667456139,
       667582322, 667708346, 667834211, 667959919, 668085468, 668210860, 668336095, 668461173,
       668586095, 668710861, 668835471, 668959927, 669084228, 669208374, 669332367, 669456206,
       669579892, 669703425, 669826805, 669950034, 670073111, 670196037, 670318811, 670441435,
       670563909, 670686234, 670808408, 670930434, 671052311, 671174040, 671295620, 671417053,
       671538339, 671659477, 671780470, 671901315, 672022016, 672142570, 672262979, 672383244,
       672503364, 672623340, 672743172, 672862861, 672982407, 673101810, 673221071, 673340189,
       673459166, 673578001, 673696696, 673815249, 673933663, 674051936, 674170069, 674288064,
       674405919, 674523635, 674641213, 674758653, 674875955, 674993119, 675110147, 675227038,
       675343792, 675460410, 675576892, 675693239, 675809450, 675925527, 676041469, 676157277,
       676272951, 676388491, 676503898, 676619171, 676734313, 676849321, 676964198, 677078942,
       677193556, 677308038, 677422389, 677536609, 677650699, 677764659, 677878490, 677992191,
       678105763, 678219206, 678332520, 678445706, 678558765, 678671695, 678784498, 678897174,
       679009724, 679122146, 679234443, 679346613, 679458658, 679570578, 679682372, 679794041,
       679905586, 680017007, 680128303, 680239476, 680350526, 680461452, 680572255, 680682936,
       680793494, 680903931, 681014245, 681124438, 681234509, 681344460, 681454290, 681563999,
       681673588, 681783057, 681892407, 682001636, 682110747, 682219739, 682328612, 682437367,
       682546004, 682654522, 682762923, 682871207, 682979374, 683087423, 683195357, 683303173,
       683410874, 683518459, 683625928, 683733281, 683840520, 683947644, 684054653, 684161548,
       684268328, 684374995, 684481548, 684587988, 684694314, 684800527, 684906628, 685012617,
       685118493, 685224257, 685329909, 685435450, 685540880, 685646198, 685751406, 685856503,
       685961490, 686066367, 686171134, 686275791, 686380339, 686484778, 686589107, 686693328,
       686797441, 686901445, 687005341, 687109129, 687212810, 687316383, 687419850, 687523209,
       687626461, 687729607, 687832647, 687935580, 688038408, 688141130, 688243747, 688346259,
       688448665, 688550967, 688653164, 688755257, 688857246, 688959131, 689060912, 689162590,
       689264164, 689365635, 689467004, 689568270, 689669433, 689770494, 689871453, 689972311,
       690073066, 690173721, 690274274, 690374726, 690475077, 690575328, 690675478, 690775528 >>

\* floor(sqrt(x)) by bisection, lo <= sqrt(x) < hi.
RECURSIVE Bisect(_, _, _)
Bisect(x, lo, hi) ==
    IF hi - lo <= 1 THEN lo
    ELSE LET mid == (lo + hi) \div 2 IN
         IF mid * mid <= x THEN Bisect(x, mid, hi) ELSE Bisect(x, lo, mid)

Isqrt(x) == Bisect(x, 0, 46340)

\* floor(100000 * sqrt(ln(N) / n)): the square root of ln(N) / n to four
\* decimals, then the fifth decimal t, the largest with (10 y + t)^2 below
\* 10^10 * ln(N) / n.
SqrtLogValue(N, n) ==
    LET A    == LnTable[N] \div n
        y    == Isqrt(A)
        rest == 100 * (A - y * y) + ((LnTable[N] % n) * 100) \div n
        t    == CHOOSE d \in 0..9 :
                    /\ 20 * y * d + d * d <= rest
                    /\ \A e \in 0..9 : 20 * y * e + e * e <= rest => e <= d
    IN 10 * y + t

\* q_vals[i]: np.divide(a_values, num_visits_actions, out = inf, where = visits != 0)
QVal(node, i) ==
    IF node.num_visits_actions[i] = 0 THEN Inf
    ELSE Fin((node.a_values[i] * 100000) \div (Unit * node.num_visits_actions[i]))

\* np.sqrt(np.divide(np.log(num_visits), num_visits_actions, out = inf, where = visits != 0))
SqrtLog(node, i) ==
    IF node.num_visits_actions[i] = 0 THEN Inf
    ELSE Fin(SqrtLogValue(node.num_visits, node.num_visits_actions[i]))

\* self.c * x in float64: 0 * inf is nan.
Times(cc, x) ==
    IF x.k = "inf" THEN (IF cc = 0 THEN NaN ELSE Inf) ELSE Fin(cc * x.v)

\* x + y in float64 (no -inf arises).
Plus(x, y) ==
    IF x.k = "nan" \/ y.k = "nan" THEN NaN
    ELSE IF x.k = "inf" \/ y.k = "inf" THEN Inf
    ELSE Fin(x.v + y.v)

\* Mutant: an action never taken scores 0 instead of +infinity.
UcbScoreZero(node, i) ==
    IF node.num_visits_actions[i] = 0 THEN Fin(0)
    ELSE Plus(QVal(node, i), Times(c, SqrtLog(node, i)))

\* ucb_scores[i]
UcbScore(node, i) == Plus(QVal(node, i), Times(c, SqrtLog(node, i)))

\* np.max of a non-empty array of scores: nan if any entry is nan.
MaxScore(scores) ==
    IF \E i \in DOMAIN scores : scores[i].k = "nan" THEN NaN
    ELSE IF \E i \in DOMAIN scores : scores[i].k = "inf" THEN Inf
    ELSE CHOOSE m \in {scores[i] : i \in DOMAIN scores} :
             \A j \in DOMAIN scores : scores[j].v <= m.v

\* x == y in float64: nan equals nothing.
FloatEq(x, y) == x.k # "nan" /\ y.k # "nan" /\ x = y

\* np.flatnonzero(ucb_scores == np.max(ucb_scores)) of a non-empty array
ArgMax(scores) == {i \in DOMAIN scores : FloatEq(scores[i], MaxScore(scores))}

UcbScores(node) == [i \in DOMAIN node.actions |-> UcbScore(node, i)]

\* ------------------------------------------------- final choice of plan()
\* q_vals = a_values / num_visits_actions: 0/0 is nan, else the exact mean,
\* kept as the pair (sum, visits) and compared by cross-multiplication.
MeanLeq(node, i, j) ==
    node.a_values[i] * node.num_visits_actions[j]
        <= node.a_values[j] * node.num_visits_actions[i]

\* Mutant: the most visited root action is returned.
PlanArgMaxVisits(node) ==
    IF \E i \in DOMAIN node.actions : node.num_visits_actions[i] = 0 THEN {}
    ELSE {i \in DOMAIN node.actions :
              \A j \in DOMAIN node.actions :
                  node.num_visits_actions[j] <= node.num_visits_actions[i]}

PlanArgMax(node) ==
    IF \E i \in DOMAIN node.actions : node.num_visits_actions[i] = 0 THEN {}
    ELSE {i \in DOMAIN node.actions :
              \A j \in DOMAIN node.actions : MeanLeq(node, j, i)}

\* ------------------------------------------------------------------ state
\* History kept for the properties below, never read by the planner:
\*   backed  the last transition of simulate whose outcome is known: its
\*           reward and terminal flag, whether it expanded a leaf, what was
\*           added to a_values and what simulate returned;
\*   path    the outcomes of the environment steps simulate has taken in the
\*           current traversal (the steps of rollout are not in it);
\*   snap    the sum of the root's a_values when the current traversal began;
\*   rolled  the outcomes of the environment steps rollout has taken in the
\*           current traversal: with path, the trajectory of the traversal;
\*   first_id  last_id when the current traversal began.
NoBackup == [r |-> 0, terminal |-> FALSE, fresh |-> FALSE, added |-> 0, value |-> 0]
Backup(r, t, fresh, added, value) ==
    [r |-> r, terminal |-> t, fresh |-> fresh, added |-> added, value |-> value]

NoResult == [action_idx |-> 0, action |-> None]

\* Mcts.__init__: an empty node table, last_id = -1, any configuration; the
\* "bandit" environment is also planned with ConvergenceSims simulations.  The
\* half discount is tried on the two episodic environments only: on the
\* stochastic robot it multiplies the distinct returns beyond what can be
\* enumerated.
Init ==
    /\ environment \in Environments
    /\ num_sim \in (0..MaxNumSim) \cup
                     (IF environment = "bandit" THEN {ConvergenceSims} ELSE {})
    /\ c \in {0, 1}
    /\ computational_budget \in 0..MaxBudget
    /\ discount \in (IF environment = "robot" THEN {0, Unit} ELSE Discounts)
    /\ id_to_state_node = <<>>
    /\ last_id = -1
    /\ pc = "idle"
    /\ raised = "none"
    /\ plans = 0
    /\ root_id = None
    /\ sn = 0
    /\ result = NoResult
    /\ stack = <<>>
    /\ state_id = None
    /\ depth = 0
    /\ ret = 0
    /\ current_state = None
    /\ terminal = FALSE
    /\ total_reward = 0
    /\ starting_depth = 0
    /\ curr_depth = 0
    /\ backed = NoBackup
    /\ path = <<>>
    /\ snap = 0
    /\ rolled = <<>>
    /\ first_id = None

\* An exception leaves plan(): nothing runs after it.
Raise(what) ==
    /\ pc' = "error"
    /\ raised' = what

\* ---------------------------------------------------------------- plan()
\* Mutant: plan() takes a root of an earlier call made from the same state.
PlanReuse ==
    /\ pc \in {"idle", "done"}
    /\ \/ (plans + 1) * (IF num_sim = 0 THEN 1 ELSE num_sim) <= MaxNumSim
       \/ plans = 0 /\ num_sim = ConvergenceSims
    /\ \E initial_state \in States(environment) :
         LET old == {id \in DOMAIN id_to_state_node :
                        id_to_state_node[id].state = initial_state}
             new_id == get_id
         IN
         IF old # {}
         THEN /\ root_id' = CHOOSE id \in old : \A other \in old : id <= other
              /\ UNCHANGED tree
         ELSE /\ last_id' = new_id
              /\ id_to_state_node' =
                     (new_id :> StateNode(environment, initial_state, new_id))
                         @@ id_to_state_node
              /\ root_id' = new_id
    /\ plans' = plans + 1
    /\ sn' = 0
    /\ result' = NoResult
    /\ pc' = "plan"
    /\ UNCHANGED <<config, raised, call, loop, history>>

\* plan(initial_state), up to the loop: a fresh root is created and registered.
\* plan() may be called again once it has returned, as long as all the calls
\* together run at most MaxNumSim simulations (and there are at most
\* MaxNumSim calls); the run of ConvergenceSims simulations is a single call.
Plan ==
    /\ pc \in {"idle", "done"}
    /\ \/ (plans + 1) * (IF num_sim = 0 THEN 1 ELSE num_sim) <= MaxNumSim
       \/ plans = 0 /\ num_sim = ConvergenceSims
    /\ \E initial_state \in States(environment) :
         LET new_id == get_id IN
         /\ last_id' = new_id
         /\ id_to_state_node' =
                (new_id :> StateNode(environment, initial_state, new_id)) @@ id_to_state_node
         /\ root_id' = new_id
    /\ plans' = plans + 1
    /\ sn' = 0
    /\ result' = NoResult
    /\ pc' = "plan"
    /\ UNCHANGED <<config, raised, call, loop, history>>

\* for sn in range(num_sim): simulate(root_id, 0)
PlanSimulate ==
    /\ pc = "plan"
    /\ sn < num_sim
    /\ state_id' = root_id
    /\ depth' = 0
    /\ stack' = <<>>
    /\ ret' = 0
    /\ path' = <<>>
    /\ snap' = SumSeq(id_to_state_node[root_id].a_values)
    /\ rolled' = <<>>
    /\ first_id' = last_id
    /\ pc' = "simulate"
    /\ UNCHANGED <<config, tree, raised, driver, loop, backed>>

\* After the loop: the root action of maximal empirical mean is returned.
PlanReturn ==
    /\ pc = "plan"
    /\ sn = num_sim
    /\ LET root_node == id_to_state_node[root_id] IN
       IF root_node.actions = <<>>
       THEN Raise("plan:max") /\ UNCHANGED result
       ELSE IF PlanArgMax(root_node) = {}
       THEN Raise("plan:choice") /\ UNCHANGED result
       ELSE /\ \E action_idx \in PlanArgMax(root_node) :
                 result' = [action_idx |-> action_idx,
                            action     |-> root_node.actions[action_idx].action]
            /\ pc' = "done"
            /\ UNCHANGED raised
    /\ UNCHANGED <<config, tree, plans, root_id, sn, call, loop, history>>

\* -------------------------------------------------------------- simulate()
Frame(node_id, action_idx, r, t) ==
    [node |-> node_id, action_idx |-> action_idx, r |-> r, terminal |-> t]

NoLoop ==
    /\ current_state' = None
    /\ terminal' = FALSE
    /\ total_reward' = 0
    /\ starting_depth' = 0
    /\ curr_depth' = 0

\* simulate(state_id, depth) from its entry to its recursive call, its call of
\* rollout, or its return at a known terminal transition.
Simulate ==
    /\ pc = "simulate"
    /\ LET node == VisitNode(id_to_state_node[state_id]) IN
       IF node.actions = <<>>
       THEN /\ Raise("simulate:max")
            /\ id_to_state_node' = [id_to_state_node EXCEPT ![state_id] = node]
            /\ UNCHANGED <<last_id, call, loop, history>>
       ELSE IF ArgMax(UcbScores(node)) = {}
       THEN /\ Raise("simulate:choice")
            /\ id_to_state_node' = [id_to_state_node EXCEPT ![state_id] = node]
            /\ UNCHANGED <<last_id, call, loop, history>>
       ELSE
         \E action_idx \in ArgMax(UcbScores(node)) :
         \E out \in step(environment, node.state, node.actions[action_idx].action) :
           LET prev_node    == VisitAction(node, action_idx)
               new_state_id == Lookup(prev_node.actions[action_idx], out.s)
           IN
           /\ path' = Append(path, out)
           /\ UNCHANGED <<raised, snap, rolled, first_id>>
           /\ IF new_state_id = None
              THEN \* Leaf Node
                   LET new_id == get_id
                       leaf   == VisitNode(StateNode(environment, out.s, new_id))
                   IN
                   /\ last_id' = new_id
                   /\ id_to_state_node' =
                          (new_id :> leaf) @@
                          [id_to_state_node EXCEPT
                              ![state_id] = Register(prev_node, action_idx, out.s, new_id)]
                   /\ stack' = Append(stack, Frame(state_id, action_idx, out.r, out.t))
                   /\ current_state' = out.s
                   /\ curr_depth' = depth + 1
                   /\ starting_depth' = 0
                   /\ total_reward' = 0
                   /\ terminal' = FALSE
                   /\ pc' = "rollout"
                   /\ UNCHANGED <<state_id, depth, ret, backed>>
              ELSE \* Node in the tree
                   /\ id_to_state_node' = [id_to_state_node EXCEPT ![state_id] = prev_node]
                   /\ UNCHANGED <<last_id, loop>>
                   /\ IF out.t
                      THEN /\ ret' = 0
                           /\ backed' = Backup(out.r, TRUE, FALSE, 0, 0)
                           /\ pc' = "return"
                           /\ UNCHANGED <<stack, state_id, depth>>
                      ELSE /\ stack' = Append(stack, Frame(state_id, action_idx, out.r, out.t))
                           /\ state_id' = new_state_id
                           /\ depth' = depth + 1
                           /\ pc' = "simulate"
                           /\ UNCHANGED <<ret, backed>>
    /\ UNCHANGED <<config, driver>>

\* --------------------------------------------------------------- rollout()
\* Mutant: every step of the rollout counts as a visit of the expanded leaf.
RolloutStepCounted ==
    /\ pc = "rollout"
    /\ ~terminal
    /\ curr_depth + starting_depth # computational_budget
    /\ starting_depth < MaxRollout
    /\ LET acts == get_actions(environment, current_state) IN
       IF acts = <<>>
       THEN /\ Raise("rollout:policy")
            /\ UNCHANGED <<loop, tree, rolled>>
       ELSE \E i \in DOMAIN acts : \E out \in step(environment, current_state, acts[i]) :
            /\ current_state' = out.s
            /\ terminal' = out.t
            /\ total_reward' = total_reward + out.r * Pow(discount, starting_depth)
            /\ starting_depth' = starting_depth + 1
            /\ id_to_state_node' =
                   [id_to_state_node EXCEPT ![last_id].num_visits = @ + 1]
            /\ rolled' = Append(rolled, out)
            /\ UNCHANGED <<pc, raised, curr_depth, last_id>>
    /\ UNCHANGED <<config, driver, call, backed, path, snap, first_id>>

\* One iteration of the while loop of rollout.  rollout_policy is supplied by
\* the caller: it may return any legal action, and raises when the state has
\* none (the uniform random policy draws from an empty array).  The guard on
\* MaxRollout only bounds the model: the code has no such limit.
RolloutStep ==
    /\ pc = "rollout"
    /\ ~terminal
    /\ curr_depth + starting_depth # computational_budget
    /\ starting_depth < MaxRollout
    /\ LET acts == get_actions(environment, current_state) IN
       IF acts = <<>>
       THEN /\ Raise("rollout:policy")
            /\ UNCHANGED <<loop, rolled>>
       ELSE \E i \in DOMAIN acts : \E out \in step(environment, current_state, acts[i]) :
            /\ current_state' = out.s
            /\ terminal' = out.t
            /\ total_reward' = total_reward + out.r * Pow(discount, starting_depth)
            /\ starting_depth' = starting_depth + 1
            /\ rolled' = Append(rolled, out)
            /\ UNCHANGED <<pc, raised, curr_depth>>
    /\ UNCHANGED <<config, tree, driver, call, backed, path, snap, first_id>>

\* The loop of rollout has ended.  Line 142 stacks the states the rollout has
\* visited under the trajectory of the traversal: state.x is a vector, so with
\* no step taken np.vstack is given an (n, d) and a (1, 0) array and raises
\* ValueError.  Otherwise rollout returns total_reward and the expanding
\* simulate adds r + discount * total_reward to the action it took.
RolloutReturn ==
    /\ pc = "rollout"
    /\ terminal \/ curr_depth + starting_depth = computational_budget
    /\ IF starting_depth = 0
       THEN /\ Raise("rollout:vstack")
            /\ UNCHANGED <<id_to_state_node, call, loop, backed>>
       ELSE /\ LET f          == stack[Len(stack)]
                   total_rwrd == f.r * Unit + Mul(total_reward, discount)
               IN
               /\ id_to_state_node' =
                      [id_to_state_node EXCEPT
                          ![f.node] = AddValue(@, f.action_idx, total_rwrd)]
               /\ ret' = total_rwrd
               /\ backed' = Backup(f.r, f.terminal, TRUE, total_rwrd, total_rwrd)
            /\ stack' = SubSeq(stack, 1, Len(stack) - 1)
            /\ NoLoop
            /\ pc' = "return"
            /\ UNCHANGED <<raised, state_id, depth>>
    /\ UNCHANGED <<config, last_id, driver, path, snap, rolled, first_id>>

\* A recursive call of simulate has returned ret: BackPropagate.
SimulateReturn ==
    /\ pc = "return"
    /\ stack # <<>>
    /\ LET f          == stack[Len(stack)]
           total_rwrd == f.r * Unit + Mul(ret, discount)
       IN
       /\ id_to_state_node' =
              [id_to_state_node EXCEPT ![f.node] = AddValue(@, f.action_idx, total_rwrd)]
       /\ ret' = total_rwrd
       /\ backed' = Backup(f.r, f.terminal, FALSE, total_rwrd, total_rwrd)
    /\ stack' = SubSeq(stack, 1, Len(stack) - 1)
    /\ UNCHANGED <<config, last_id, pc, raised, driver, state_id, depth, loop,
                   path, snap, rolled, first_id>>

\* The call simulate(root_id, 0) of plan() has returned: its locals and the
\* history of the traversal are dropped.
PlanNext ==
    /\ pc = "return"
    /\ stack = <<>>
    /\ sn' = sn + 1
    /\ pc' = "plan"
    /\ state_id' = None
    /\ depth' = 0
    /\ ret' = 0
    /\ backed' = NoBackup
    /\ path' = <<>>
    /\ snap' = 0
    /\ rolled' = <<>>
    /\ first_id' = None
    /\ UNCHANGED <<config, tree, raised, plans, root_id, result, stack, loop>>

Next ==
    \/ Plan
    \/ PlanSimulate
    \/ PlanReturn
    \/ Simulate
    \/ RolloutStep
    \/ RolloutReturn
    \/ SimulateReturn
    \/ PlanNext

Spec == Init /\ [][Next]_vars

\* ============================================================== properties
Nodes == {id_to_state_node[id] : id \in DOMAIN id_to_state_node}

\* The (node, action index, successor state) entries of all state_to_id maps.
Edges ==
    UNION {UNION {{<<id, i, s>> :
                      s \in DOMAIN id_to_state_node[id].actions[i].state_to_id} :
                  i \in DOMAIN id_to_state_node[id].actions} :
           id \in DOMAIN id_to_state_node}

Target(e) == id_to_state_node[e[1]].actions[e[2]].state_to_id[e[3]]

InEdges(id) == {e \in Edges : Target(e) = id}

\* C1 (visit conservation): in every reachable state every StateNode has
\* sum(num_visits_actions) <= num_visits, and its actions, num_visits_actions
\* and a_values have the same length.
C1_VisitConservation ==
    \A node \in Nodes :
        /\ SumSeq(node.num_visits_actions) <= node.num_visits
        /\ Len(node.actions) = Len(node.num_visits_actions)
        /\ Len(node.num_visits_actions) = Len(node.a_values)

\* A node entered again after the traversal that created it: two visits, one
\* of its three actions taken.
C1_Witness ==
    \E node \in Nodes :
        /\ node.num_visits = 2
        /\ SumSeq(node.num_visits_actions) = 1
        /\ Len(node.actions) = 3

\* C2 (terminal bootstrap): whenever the transition taken in simulate reports
\* terminal = true, the value added to a_values and returned equals the
\* immediate reward r of that transition.
C2_TerminalBootstrap ==
    backed.terminal => (backed.value = backed.r * Unit /\ backed.added = backed.r * Unit)

\* C3 (tree reuse, as claimed): two actions of one node that have both reached
\* a successor state s hold the same StateNode id for s.
C3_TreeReuse ==
    \A e1 \in Edges : \A e2 \in Edges :
        (e1[1] = e2[1] /\ e1[3] = e2[3]) => Target(e1) = Target(e2)

\* C3 (amended): reuse is per action.  Every action taken at least once has
\* registered a successor in its own map, no StateNode is the target of two
\* map entries, and the nodes that are the target of none are the roots of the
\* plan() calls made so far: a traversal through another action creates a
\* second StateNode for the same state, a traversal through the same action
\* creates none.
C3_PerActionReuse ==
    /\ \A node \in Nodes : \A i \in DOMAIN node.actions :
           node.num_visits_actions[i] > 0 => DOMAIN node.actions[i].state_to_id # {}
    /\ LET entries == Edges
           targets == {Target(e) : e \in entries}
       IN /\ Cardinality(targets) = Cardinality(entries)
          /\ Cardinality(DOMAIN id_to_state_node \ targets) = plans

\* Two actions of one node have reached the same state and hold different
\* nodes for it, and one of them has been taken twice reaching it.
C3_Witness ==
    \E e1 \in Edges : \E e2 \in Edges :
        /\ e1[1] = e2[1] /\ e1[2] # e2[2] /\ e1[3] = e2[3]
        /\ Target(e1) # Target(e2)
        /\ id_to_state_node[e1[1]].num_visits_actions[e1[2]] = 2
        /\ DOMAIN id_to_state_node[e1[1]].actions[e1[2]].state_to_id = {e1[3]}

\* C4 (termination by hard counters): the rollout phase of a traversal never
\* takes more than computational_budget environment steps.
C4_RolloutWithinBudget == starting_depth <= computational_budget

\* C5 (forced exploration): with c > 0 no action of a node is selected a
\* second time while another action of the same node has zero visits.
C5_ForcedExploration ==
    c > 0 =>
        \A node \in Nodes : \A i \in DOMAIN node.actions : \A j \in DOMAIN node.actions :
            node.num_visits_actions[i] = 0 => node.num_visits_actions[j] <= 1

\* Either a node with three actions, each taken once in its first three
\* selections, or a node with two actions, each taken, one of them twice.
C5_Witness ==
    /\ c > 0
    /\ \E node \in Nodes :
           /\ \A i \in DOMAIN node.actions : node.num_visits_actions[i] >= 1
           /\ \/ Len(node.actions) = 3
              \/ /\ Len(node.actions) = 2
                 /\ \E i \in DOMAIN node.actions : node.num_visits_actions[i] = 2

\* C6 (zero-visit scores): for every c >= 0, when simulate scores a node with
\* at least one action, every zero-visit action scores +infinity, no score is
\* NaN and some index achieves the maximum.
C6_ScoresDefined ==
    (pc = "simulate" /\ id_to_state_node[state_id].actions # <<>>) =>
        LET node == VisitNode(id_to_state_node[state_id]) IN
        /\ \A i \in DOMAIN node.actions :
               /\ node.num_visits_actions[i] = 0 => UcbScore(node, i) = Inf
               /\ UcbScore(node, i) # NaN
        /\ ArgMax(UcbScores(node)) # {}

\* C7 (defensive final choice): with 1 <= num_sim < number of root actions,
\* the final selection of plan() does not fail, and what it returns is a
\* visited root action.
C7_FinalChoiceDefined ==
    (pc \in {"done", "error"} /\ sn = num_sim /\ num_sim >= 1
        /\ num_sim < Len(id_to_state_node[root_id].actions)) =>
        /\ raised # "plan:choice"
        /\ pc = "done" =>
               id_to_state_node[root_id].num_visits_actions[result.action_idx] > 0

\* C8 (returned action): with c > 0 and num_sim >= number of root actions,
\* the action plan() returns is a root action whose empirical mean
\* a_values[i] / num_visits_actions[i] is maximal among all root actions.
C8_MaxMeanReturned ==
    (pc = "done" /\ c > 0 /\ num_sim >= Len(id_to_state_node[root_id].actions)) =>
        LET root_node == id_to_state_node[root_id]
            i         == result.action_idx
        IN
        /\ i \in DOMAIN root_node.actions
        /\ result.action = root_node.actions[i].action
        /\ \A j \in DOMAIN root_node.actions :
               /\ root_node.num_visits_actions[j] > 0
               /\ root_node.a_values[j] * root_node.num_visits_actions[i]
                      <= root_node.a_values[i] * root_node.num_visits_actions[j]

\* plan() has returned the second of two root actions of equal, maximal mean,
\* a third action having a smaller mean.
C8_Witness ==
    /\ pc = "done" /\ c > 0
    /\ LET root_node == id_to_state_node[root_id]
           i         == result.action_idx
       IN
       /\ Len(root_node.actions) = 3
       /\ num_sim >= 3
       /\ \E j \in 1..(i - 1) :
              root_node.a_values[j] * root_node.num_visits_actions[i]
                  = root_node.a_values[i] * root_node.num_visits_actions[j]
       /\ \E j \in DOMAIN root_node.actions :
              root_node.a_values[j] * root_node.num_visits_actions[i]
                  < root_node.a_values[i] * root_node.num_visits_actions[j]

\* C9 (empty action set): no StateNode with zero actions is ever registered
\* in id_to_state_node.
C9_NoEmptyNode == \A node \in Nodes : node.actions # <<>>

\* C10 (discount identity): in the "chain" environment (reward 0 everywhere
\* but the terminal transition of reward 2) with discount 1, a traversal from
\* the root whose tree steps took that transition adds exactly 2 to the root's
\* a_values.
C10_DiscountIdentity ==
    (environment = "chain" /\ discount = Unit /\ pc = "return" /\ stack = <<>>
        /\ \E k \in DOMAIN path : path[k].t /\ path[k].r = 2) =>
        SumSeq(id_to_state_node[root_id].a_values) - snap = 2 * Unit

\* C12 (root traversals): when plan() returns, the root has num_visits =
\* num_sim and sum(num_visits_actions) = num_sim; simulate is on the root only
\* at depth 0 with no caller, and no state_to_id map holds the root's id, also
\* when a transition leads back to the root's state.
C12_RootTraversals ==
    /\ pc = "done" =>
           /\ sn = num_sim
           /\ id_to_state_node[root_id].num_visits = num_sim
           /\ SumSeq(id_to_state_node[root_id].num_visits_actions) = num_sim
    /\ (pc = "simulate" /\ state_id = root_id) => (depth = 0 /\ stack = <<>>)
    /\ root_id # None => InEdges(root_id) = {}

\* plan() has returned after two or more traversals, one of which came back
\* to the state of the root.
C12_Witness ==
    /\ pc = "done"
    /\ num_sim >= 2
    /\ \E id \in DOMAIN id_to_state_node :
           /\ id > root_id
           /\ id_to_state_node[id].state = id_to_state_node[root_id].state

\* C13 (identifier allocation), state part: the keys of id_to_state_node are
\* exactly 0..last_id and every StateNode's id is its key.
C13_Keys ==
    /\ DOMAIN id_to_state_node = 0..last_id
    /\ \A id \in DOMAIN id_to_state_node : id_to_state_node[id].id = id

\* C13, step part: every call of get_id (one in plan(), one at each expansion)
\* returns last_id + 1; the node created is stored under that new key, and no
\* node already in the table is replaced by one of another state.
C13_Step ==
    /\ last_id' \in {last_id, last_id + 1}
    /\ (plans' # plans \/ (pc = "simulate" /\ pc' = "rollout")) =>
           /\ last_id' = last_id + 1
           /\ DOMAIN id_to_state_node' = DOMAIN id_to_state_node \cup {last_id'}
    /\ \A id \in DOMAIN id_to_state_node :
           /\ id \in DOMAIN id_to_state_node'
           /\ id_to_state_node'[id].id = id
           /\ id_to_state_node'[id].state = id_to_state_node[id].state

\* C13 (identifier allocation): get_id returns 0 on its first call and a
\* strictly larger integer on each later call, never repeating a value; the
\* keys of id_to_state_node are exactly {0, ..., last_id}, each StateNode's id
\* is its key and no two StateNodes share an id, across plan() calls.
C13_IdAllocation == []C13_Keys /\ [][C13_Step]_vars

\* Ids were allocated in two plan() calls and at an expansion.
C13_Witness ==
    /\ plans >= 2
    /\ last_id >= 2
    /\ \E id \in DOMAIN id_to_state_node : InEdges(id) # {}

\* C14 (transposition-map integrity), state part: every id held by a
\* state_to_id map is a key of id_to_state_node, and the StateNode under it
\* has the state it is registered for.
C14_Targets ==
    \A e \in Edges :
        /\ Target(e) \in DOMAIN id_to_state_node
        /\ id_to_state_node[Target(e)].state = e[3]

\* C14, step part: no StateNode leaves id_to_state_node, no action leaves a
\* node, and no entry of a state_to_id map is removed or bound to another id.
C14_Step ==
    \A id \in DOMAIN id_to_state_node :
        /\ id \in DOMAIN id_to_state_node'
        /\ DOMAIN id_to_state_node'[id].actions = DOMAIN id_to_state_node[id].actions
        /\ \A i \in DOMAIN id_to_state_node[id].actions :
               LET old == id_to_state_node[id].actions[i].state_to_id
                   new == id_to_state_node'[id].actions[i].state_to_id
               IN \A s \in DOMAIN old : s \in DOMAIN new /\ new[s] = old[s]

\* C14 (transposition-map integrity): every id stored in any state_to_id map
\* is a key of id_to_state_node whose StateNode has the state of the map key,
\* and the maps and the table only grow: no entry is removed or rebound.
C14_MapIntegrity == []C14_Targets /\ [][C14_Step]_vars

\* One action holds two successors (a stochastic transition seen with both
\* outcomes), each under its own StateNode of that state.
C14_Witness ==
    \E e1 \in Edges : \E e2 \in Edges :
        /\ e1[1] = e2[1] /\ e1[2] = e2[2] /\ e1[3] # e2[3]
        /\ id_to_state_node[Target(e1)].state = e1[3]
        /\ id_to_state_node[Target(e2)].state = e2[3]

\* What rollout may not touch of a node: everything but a_values.
C15_Shape(node) == [node EXCEPT !.a_values = <<>>]

\* One step of rollout: from the call of rollout to its return, last_id,
\* the keys of id_to_state_node, and every StateNode's num_visits,
\* num_visits_actions, a_values and state_to_id maps are unchanged.  The step
\* in which rollout returns also holds the caller's a_values[action_idx] +=
\* total_rwrd (line 115): there a_values may differ, in that one entry only.
C15_RolloutStepPure ==
    pc = "rollout" =>
        /\ last_id' = last_id
        /\ DOMAIN id_to_state_node' = DOMAIN id_to_state_node
        /\ \A id \in DOMAIN id_to_state_node :
               /\ C15_Shape(id_to_state_node'[id]) = C15_Shape(id_to_state_node[id])
               /\ \A i \in DOMAIN id_to_state_node[id].a_values :
                      \/ id_to_state_node'[id].a_values[i] = id_to_state_node[id].a_values[i]
                      \/ /\ pc' = "return"
                         /\ id = stack[Len(stack)].node
                         /\ i = stack[Len(stack)].action_idx

\* C15 (rollout purity): no step of a call of rollout creates or changes a
\* tree node, a state_to_id map or last_id.
C15_RolloutPurity == [][C15_RolloutStepPure]_vars

\* A rollout has taken two steps below a leaf whose parent holds visits and
\* values from an earlier traversal.
C15_Witness ==
    /\ pc = "rollout"
    /\ starting_depth = 2
    /\ \E node \in Nodes : \E i \in DOMAIN node.a_values :
           node.a_values[i] > 0 /\ node.num_visits >= 2

\* C20 (exact visit accounting): between traversals every root StateNode (one
\* that no state_to_id map holds) has num_visits = sum(num_visits_actions) and
\* every other StateNode has num_visits = 1 + sum(num_visits_actions); a
\* traversal adds at most one StateNode, and a completed one has added exactly
\* one if it ended in an expansion (a rollout was run) and none if it ended at
\* a known terminal transition.
C20_VisitAccounting ==
    /\ pc \in {"idle", "plan", "done"} =>
           \A id \in DOMAIN id_to_state_node :
               id_to_state_node[id].num_visits =
                   (IF InEdges(id) = {} THEN 0 ELSE 1)
                       + SumSeq(id_to_state_node[id].num_visits_actions)
    /\ pc \in {"simulate", "rollout", "return"} => last_id - first_id \in {0, 1}
    /\ (pc = "return" /\ stack = <<>>) =>
           last_id - first_id = (IF rolled # <<>> THEN 1 ELSE 0)

\* A traversal has ended at a known terminal transition, adding no node, and
\* an earlier one of the same plan() call has ended in an expansion.
C20_Witness ==
    /\ pc = "return" /\ stack = <<>>
    /\ rolled = <<>>
    /\ path[Len(path)].t
    /\ last_id = first_id
    /\ last_id > root_id

\* One step of the planner seen from the nodes of earlier plan() calls: a call
\* of plan() keeps every node of the table and takes as root a node that was
\* not in it, and no step changes a node older than the current root or has
\* simulate enter one.
C19_Step ==
    /\ DOMAIN id_to_state_node \subseteq DOMAIN id_to_state_node'
    /\ plans' # plans =>
           /\ root_id' \notin DOMAIN id_to_state_node
           /\ root_id' \in DOMAIN id_to_state_node'
           /\ InEdges(root_id)' = {}
    /\ \A id \in DOMAIN id_to_state_node :
           id < root_id' => id_to_state_node'[id] = id_to_state_node[id]
    /\ pc' = "simulate" => state_id' >= root_id'

\* C19 (disconnected root across plan() calls): id_to_state_node is never
\* cleared between plan() calls, and during a later call no StateNode created
\* by an earlier call is visited or modified, even when the later call starts
\* from the same initial state.
C19_DisconnectedRoot == [][C19_Step]_vars

\* A second plan() call from the initial state of the first has returned: the
\* node table holds both roots, each visited, and each with a leaf of its own.
C19_Witness ==
    /\ pc = "done"
    /\ plans >= 2
    /\ last_id > root_id
    /\ id_to_state_node[root_id].num_visits >= 1
    /\ \E id \in DOMAIN id_to_state_node :
           /\ id < root_id
           /\ InEdges(id) = {}
           /\ id_to_state_node[id].state = id_to_state_node[root_id].state
           /\ id_to_state_node[id].num_visits >= 1
           /\ \E e \in Edges : e[1] = id

\* The environment steps of the current traversal, in order: those of
\* simulate, then those of rollout.
Trajectory == path \o rolled

\* C18 (no continuation past a terminal transition): within one traversal no
\* environment step is applied after a step that reported terminal = true,
\* whether the state reached was known to the action or expanded as a leaf.
C18_NoStepPastTerminal ==
    \A k \in DOMAIN Trajectory : Trajectory[k].t => k = Len(Trajectory)

\* sum over the steps k = 0, 1, ... of seq of discount^k * reward_k, where w
\* is the weight discount^k of the first step of seq.
RECURSIVE C17_Sum(_, _)
C17_Sum(seq, w) ==
    IF seq = <<>> THEN 0
    ELSE Head(seq).r * w + C17_Sum(Tail(seq), Mul(w, discount))

\* C17 (reward-accumulating backup): in a traversal that has expanded a leaf,
\* the value a tree node adds to a_values[action_idx] and returns is the
\* discounted sum of the rewards of the trajectory from its own step on (its
\* reward plus discount times the value from one level below, the rollout
\* value at the expansion), and when the traversal is complete the root's
\* a_values have grown by the sum over all steps k of the trajectory of
\* discount^k * reward_k.
C17_DiscountedBackup ==
    (pc = "return" /\ rolled # <<>>) =>
        LET below == SubSeq(Trajectory, Len(stack) + 1, Len(Trajectory)) IN
        /\ ret = C17_Sum(below, Unit)
        /\ backed.added = ret
        /\ stack = <<>> =>
               SumSeq(id_to_state_node[root_id].a_values) - snap
                   = C17_Sum(Trajectory, Unit)

\* A traversal with two tree steps and a rollout has returned to plan() under
\* discount 1/2, with a reward below the root's own step.
C17_Witness ==
    /\ pc = "return" /\ stack = <<>>
    /\ Len(path) >= 2 /\ rolled # <<>>
    /\ discount = Unit \div 2
    /\ \E k \in 2..Len(Trajectory) : Trajectory[k].r > 0
    /\ SumSeq(id_to_state_node[root_id].a_values) - snap > 0

\* C16 (convergence scenario): on the "bandit" environment (root state 0 with
\* one action ending the episode with reward 10 and one ending it with reward
\* 1), plan() with num_sim = 1000 and c > 0 returns the reward-10 action,
\* whatever the tie-breaks and the rollout choices.
C16_Convergence ==
    (environment = "bandit" /\ num_sim = ConvergenceSims /\ c > 0 /\ pc = "done"
        /\ id_to_state_node[root_id].state = 0) =>
        result.action = 0

====
